---- MODULE Spec2Model ----
(***************************************************************************)
(* Model of the App component (playback clock, key highlighting, analysis  *)
(* upload, MIDI export).  Times are milliseconds.  Speeds are held in      *)
(* percent (1.0 = 100) so that 16 * speed stays an integer; every speed    *)
(* the buttons offer is a dyadic rational, so the floating point sums of   *)
(* the code are exact and equal the integer sums of the model.  A string   *)
(* is the sequence of its UTF-16 code units.                               *)
(*                                                                         *)
(* An action is one event handler or callback together with the render it  *)
(* causes and the effects of that render: React runs the pending effects   *)
(* of a render before it starts the next render, and the effects of a      *)
(* render caused by a click before the handler's task ends, so the states  *)
(* between a handler and its effects are not states in which "the resolver *)
(* has run" or "the timer effect has run".                                 *)
(***************************************************************************)
EXTENDS Integers, Sequences, FiniteSets, TLC

VARIABLES
    analysisProgress,    \* useState<number | null>, NoProgress for null
    activeSong,          \* useState<Song | null>: index into Songs, NoSong for null
    playbackTime,        \* useState(0)
    isPlaying,           \* useState(false)
    highlightedKeys,     \* useState<Set<string>>
    settings,            \* settings.musicMode: enabled, speed, transposition, silentMode
    audioRef,            \* useRef<HTMLAudioElement | null> and the element's state
    playbackIntervalRef, \* useRef<number | null>, 0 for null
    timers,              \* live window.setInterval timers with the closure they captured
    pending,             \* analyzeMP3 calls in flight, in the order they were issued
    download,            \* the last file offered by exportMIDI (and what it was made from)
    runBase,             \* history: cursor when the current uninterrupted silent run began
    runTicks,            \* history: ticks fired in the current uninterrupted silent run
    lastEvent            \* history: "failed" right after an analysis failed, "seek" right
                         \* after a restart, "seekTick" after the simulated tick that
                         \* followed a restart, "none" after anything else

vars == <<analysisProgress, activeSong, playbackTime, isPlaying, highlightedKeys,
          settings, audioRef, playbackIntervalRef, timers, pending, download,
          runBase, runTicks, lastEvent>>

----------------------------------------------------------------------------
(* Bounds *)

MaxTime == 48          \* ticks and media progress stop once the cursor is here
MaxExportTime == 8     \* the same, in the specification of the exporter
MaxExportShift == 2    \* |transposition| in the specification of the exporter
MaxPending == 2        \* analyses in flight at once
MaxAnalysisTime == 16  \* ticks stop here in the specification of the analysis

----------------------------------------------------------------------------
(* Values *)

NoSong == 0
NoProgress == 0 - 1
\* the one non-number a key can yield; every key code is >= 0
NaN == 0 - 1000000

TickPeriod == 16
SpeedButtons == {50, 75, 100, 125, 150}
MinTransposition == 0 - 12
MaxTransposition == 12

Note(k, t, d) == [key |-> k, time |-> t, duration |-> d]

\* Songs the analysis collaborator can produce.  Keys: "A" 65, "C" 67, "c" 99,
\* "g" 103, "E" 69, "C#" 67 35, U+0150 336, "" (empty).  The notes are not
\* sorted, "C" and "c" overlap, "g" has no duration.
Songs ==
    << [name |-> "one",   notes |-> << Note(<<65>>, 0, 200) >>],
       [name |-> "mixed", notes |-> << Note(<<67>>, 8, 16), Note(<<99>>, 16, 16),
                                       Note(<<103>>, 16, 0), Note(<<69>>, 0, 8),
                                       Note(<<67, 35>>, 32, 8), Note(<<336>>, 12, 12),
                                       Note(<< >>, 40, 8) >>] >>

SongIds == 1..Len(Songs)
\* Files the user can pick: file i decodes to song i, the last one is no MP3.
Files == 1..(Len(Songs) + 1)
Decodable(f) == f \in SongIds
ProgressValues == {50, 100}
MediaSteps == {8, 16}

NoAudio == [present |-> FALSE, src |-> 0, currentTime |-> 0, paused |-> TRUE,
            playbackRate |-> 100]
\* song, transposition, running: what was in force when the file was made
NoDownload == [song |-> NoSong, transposition |-> 0, name |-> "", bytes |-> << >>,
               running |-> FALSE]

----------------------------------------------------------------------------
(* Pure helpers *)

\* String.prototype.toUpperCase on the code units the model uses
UpperCode(c) == IF c >= 97 /\ c <= 122 THEN c - 32 ELSE c
ToUpperCase(s) == [i \in 1..Len(s) |-> UpperCode(s[i])]

\* String.prototype.charCodeAt(0)
CharCodeAt0(s) == IF Len(s) = 0 THEN NaN ELSE s[1]

\* a + b on numbers, NaN absorbing
Plus(a, b) == IF a = NaN \/ b = NaN THEN NaN ELSE a + b

\* element conversion of new Uint8Array([...]): ToUint8
ToUint8(x) == IF x = NaN THEN 0 ELSE x % 256

RECURSIVE Pow2(_)
Pow2(n) == IF n = 0 THEN 1 ELSE 2 * Pow2(n - 1)
\* (x >> n) & 0xFF for 0 <= x < 2^31
ShiftByte(x, n) == (x \div Pow2(n)) % 256

RemoveAt(s, i) == [j \in 1..(Len(s) - 1) |-> IF j < i THEN s[j] ELSE s[j + 1]]

Notes(song) == Songs[song].notes

\* SimulatedStep with the speed factor forgotten
SimulatedStepNoSpeed(speed) == TickPeriod

\* 16 * settings.musicMode.speed
SimulatedStep(speed) == (TickPeriod * speed) \div 100

----------------------------------------------------------------------------
(* exportMIDI: the bytes *)

header == << 77, 84, 104, 100,  0, 0, 0, 6,  0, 0,  0, 1,  1, 224 >>
trackHeader == << 77, 84, 114, 107 >>
endOfTrack == << 0, 255, 47, 0 >>

\* midiNote with the offset of 'A' one too small
midiNoteFromOne(note) == Plus(60, Plus(CharCodeAt0(note.key), 0 - 64))

\* const midiNote = 60 + (note.key.charCodeAt(0) - 65)
midiNote(note) == Plus(60, Plus(CharCodeAt0(note.key), 0 - 65))

\* the two events.push calls for one note
NoteEvents(note) ==
    << 0, 144, midiNote(note), 100 >> \o << 129, 64, 128, midiNote(note), 0 >>

RECURSIVE NotesEvents(_)
NotesEvents(notes) ==
    IF notes = << >> THEN << >>
    ELSE NoteEvents(Head(notes)) \o NotesEvents(Tail(notes))

events(notes) == NotesEvents(notes) \o endOfTrack

\* trackLenBytes with the least significant byte first
trackLenBytesLittleEndian(trackLength) ==
    << trackLength % 256, ShiftByte(trackLength, 8),
       ShiftByte(trackLength, 16), ShiftByte(trackLength, 24) >>

trackLenBytes(trackLength) ==
    << ShiftByte(trackLength, 24), ShiftByte(trackLength, 16),
       ShiftByte(trackLength, 8), trackLength % 256 >>

Uint8Array(numbers) == [i \in 1..Len(numbers) |-> ToUint8(numbers[i])]

\* midiFile made of the notes that have not ended at the cursor
midiFileFromCursor(notes) ==
    LET rest == SelectSeq(notes, LAMBDA n : n.time + n.duration >= playbackTime)
    IN  Uint8Array(header \o trackHeader \o trackLenBytes(Len(events(rest)))
                     \o events(rest))

\* new Uint8Array([...header, ...trackHeader, ...trackLenBytes, ...events])
midiFile(notes) ==
    Uint8Array(header \o trackHeader \o trackLenBytes(Len(events(notes)))
                 \o events(notes))

----------------------------------------------------------------------------
(* The two effects, run after every render whose dependencies changed *)

\* ActiveKeys with the end of a note's window left out
ActiveKeysExclusiveEnd(song, t) ==
    { ToUpperCase(Notes(song)[i].key) :
        i \in { j \in 1..Len(Notes(song)) :
                  /\ t >= Notes(song)[j].time
                  /\ t < Notes(song)[j].time + Notes(song)[j].duration } }

\* activeSong.notes.filter(...) then forEach add(n.key.toUpperCase())
ActiveKeys(song, t) ==
    { ToUpperCase(Notes(song)[i].key) :
        i \in { j \in 1..Len(Notes(song)) :
                  /\ t >= Notes(song)[j].time
                  /\ t <= Notes(song)[j].time + Notes(song)[j].duration } }

\* an id window.setInterval has not handed out to a live timer
FreshTimerId(live, last) ==
    CHOOSE id \in 1..(Cardinality(live) + 2) :
        /\ id # last
        /\ \A t \in live : t.id # id

\* PlaybackTimeEffect without the cleanup function: only the else branch clears
PlaybackTimeEffectNoCleanup ==
    IF /\ isPlaying' = isPlaying
       /\ settings'.silentMode = settings.silentMode
       /\ settings'.speed = settings.speed
    THEN UNCHANGED <<playbackIntervalRef, timers>>
    ELSE IF isPlaying'
         THEN LET id == FreshTimerId(timers, playbackIntervalRef)
              IN  /\ timers' = timers \cup
                        { [id |-> id, silentMode |-> settings'.silentMode,
                           speed |-> settings'.speed] }
                  /\ playbackIntervalRef' = id
         ELSE /\ timers' = { t \in timers : t.id # playbackIntervalRef }
              /\ playbackIntervalRef' = playbackIntervalRef

\* PlaybackTimeEffect with the dependency list [isPlaying]
PlaybackTimeEffectRunningDepOnly ==
    IF isPlaying' = isPlaying
    THEN UNCHANGED <<playbackIntervalRef, timers>>
    ELSE LET cleared == { t \in timers : t.id # playbackIntervalRef }
         IN  IF isPlaying'
             THEN LET id == FreshTimerId(cleared, playbackIntervalRef)
                  IN  /\ timers' = cleared \cup
                            { [id |-> id, silentMode |-> settings'.silentMode,
                               speed |-> settings'.speed] }
                      /\ playbackIntervalRef' = id
             ELSE /\ timers' = cleared
                  /\ playbackIntervalRef' = playbackIntervalRef

\* useEffect(..., [isPlaying, silentMode, speed]): cleanup of the previous run,
\* then the effect body with the values of the new render
PlaybackTimeEffect ==
    IF /\ isPlaying' = isPlaying
       /\ settings'.silentMode = settings.silentMode
       /\ settings'.speed = settings.speed
    THEN UNCHANGED <<playbackIntervalRef, timers>>
    ELSE LET cleared == { t \in timers : t.id # playbackIntervalRef }
         IN  IF isPlaying'
             THEN LET id == FreshTimerId(cleared, playbackIntervalRef)
                  IN  /\ timers' = cleared \cup
                            { [id |-> id, silentMode |-> settings'.silentMode,
                               speed |-> settings'.speed] }
                      /\ playbackIntervalRef' = id
             ELSE /\ timers' = cleared
                  /\ playbackIntervalRef' = playbackIntervalRef

\* HighlightEffect without its else-if branch
HighlightEffectNoClear(newSong) ==
    IF /\ ~newSong
       /\ playbackTime' = playbackTime
       /\ activeSong' = activeSong
       /\ isPlaying' = isPlaying
       /\ settings'.enabled = settings.enabled
    THEN UNCHANGED highlightedKeys
    ELSE IF activeSong' # NoSong /\ isPlaying'
         THEN highlightedKeys' = ActiveKeys(activeSong', playbackTime')
         ELSE UNCHANGED highlightedKeys

\* HighlightEffect with the dependency list [activeSong, isPlaying, enabled]
HighlightEffectNoCursorDep(newSong) ==
    IF /\ ~newSong
       /\ activeSong' = activeSong
       /\ isPlaying' = isPlaying
       /\ settings'.enabled = settings.enabled
    THEN UNCHANGED highlightedKeys
    ELSE IF activeSong' # NoSong /\ isPlaying'
         THEN highlightedKeys' = ActiveKeys(activeSong', playbackTime')
         ELSE IF ~settings'.enabled
              THEN highlightedKeys' = {}
              ELSE UNCHANGED highlightedKeys

\* useEffect(..., [playbackTime, activeSong, isPlaying, enabled]); newSong is
\* TRUE when setActiveSong installed a new Song object
HighlightEffect(newSong) ==
    IF /\ ~newSong
       /\ playbackTime' = playbackTime
       /\ activeSong' = activeSong
       /\ isPlaying' = isPlaying
       /\ settings'.enabled = settings.enabled
    THEN UNCHANGED highlightedKeys
    ELSE IF activeSong' # NoSong /\ isPlaying'
         THEN highlightedKeys' = ActiveKeys(activeSong', playbackTime')
         ELSE IF ~settings'.enabled
              THEN highlightedKeys' = {}
              ELSE UNCHANGED highlightedKeys

Effects(newSong) == PlaybackTimeEffect /\ HighlightEffect(newSong)

\* history of the current silent run; an action that interrupts it calls this
NewRun ==
    /\ runBase' = IF isPlaying' /\ settings'.silentMode THEN playbackTime' ELSE 0
    /\ runTicks' = 0

----------------------------------------------------------------------------
(* State after construction and the first render's effects *)

Init ==
    /\ analysisProgress = NoProgress
    /\ activeSong = NoSong
    /\ playbackTime = 0
    /\ isPlaying = FALSE
    /\ highlightedKeys = {}
    /\ settings = [enabled |-> FALSE, speed |-> 100, transposition |-> 0,
                   silentMode |-> FALSE]
    /\ audioRef = NoAudio
    /\ playbackIntervalRef = 0
    /\ timers = {}
    /\ pending = << >>
    /\ download = NoDownload
    /\ runBase = 0
    /\ runTicks = 0
    /\ lastEvent = "none"

----------------------------------------------------------------------------
(* handleFileUpload and the analysis collaborator *)

handleFileUpload(f) ==
    /\ Len(pending) < MaxPending
    /\ analysisProgress' = 0
    /\ pending' = Append(pending, [file |-> f, progress |-> 0])
    /\ UNCHANGED <<activeSong, playbackTime, isPlaying, highlightedKeys, settings,
                   audioRef, playbackIntervalRef, timers, download, runBase, runTicks>>
    /\ lastEvent' = "none"

\* the collaborator calls setAnalysisProgress with a non-decreasing percentage
onProgress(i, p) ==
    /\ i \in 1..Len(pending)
    /\ p >= pending[i].progress
    /\ analysisProgress' = p
    /\ pending' = [pending EXCEPT ![i].progress = p]
    /\ UNCHANGED <<activeSong, playbackTime, isPlaying, highlightedKeys, settings,
                   audioRef, playbackIntervalRef, timers, download, runBase, runTicks>>
    /\ lastEvent' = "none"

\* the await returns a Song: lines 80-86
analysisResolved(i) ==
    /\ i \in 1..Len(pending)
    /\ Decodable(pending[i].file)
    /\ activeSong' = pending[i].file
    /\ audioRef' = [present |-> TRUE, src |-> pending[i].file, currentTime |-> 0,
                    paused |-> TRUE, playbackRate |-> 100]
    /\ analysisProgress' = NoProgress
    /\ pending' = RemoveAt(pending, i)
    /\ UNCHANGED <<playbackTime, isPlaying, settings, download, runBase, runTicks>>
    /\ lastEvent' = "none"
    /\ Effects(TRUE)

\* analysisFailed with a catch branch that also drops the active song
analysisFailedClearsSong(i) ==
    /\ i \in 1..Len(pending)
    /\ ~Decodable(pending[i].file)
    /\ analysisProgress' = NoProgress
    /\ pending' = RemoveAt(pending, i)
    /\ activeSong' = NoSong
    /\ UNCHANGED <<playbackTime, isPlaying, settings, audioRef, download, runBase,
                   runTicks>>
    /\ lastEvent' = "failed"
    /\ Effects(FALSE)

\* analysisFailed with a catch branch that also stops playback
analysisFailedStopsClock(i) ==
    /\ i \in 1..Len(pending)
    /\ ~Decodable(pending[i].file)
    /\ analysisProgress' = NoProgress
    /\ pending' = RemoveAt(pending, i)
    /\ isPlaying' = FALSE
    /\ UNCHANGED <<activeSong, playbackTime, settings, audioRef, download>>
    /\ lastEvent' = "failed"
    /\ NewRun
    /\ Effects(FALSE)

\* the await throws: lines 87-90
analysisFailed(i) ==
    /\ i \in 1..Len(pending)
    /\ ~Decodable(pending[i].file)
    /\ analysisProgress' = NoProgress
    /\ pending' = RemoveAt(pending, i)
    /\ UNCHANGED <<activeSong, playbackTime, isPlaying, highlightedKeys, settings,
                   audioRef, playbackIntervalRef, timers, download, runBase, runTicks>>
    /\ lastEvent' = "failed"

----------------------------------------------------------------------------
(* Transport *)

\* lines 136-145
startOrStop ==
    /\ IF isPlaying
       THEN /\ audioRef' = IF audioRef.present
                           THEN [audioRef EXCEPT !.paused = TRUE]
                           ELSE audioRef
            /\ isPlaying' = FALSE
       ELSE /\ audioRef' = IF audioRef.present /\ ~settings.silentMode
                           THEN [audioRef EXCEPT !.playbackRate = settings.speed,
                                                 !.paused = FALSE]
                           ELSE audioRef
            /\ isPlaying' = TRUE
    /\ UNCHANGED <<analysisProgress, activeSong, playbackTime, settings, pending,
                   download>>
    /\ lastEvent' = "none"
    /\ NewRun
    /\ Effects(FALSE)

\* togglePlayback without its first line
togglePlaybackNoGuard == startOrStop

\* if (!activeSong) return; then start or stop
togglePlayback ==
    IF activeSong = NoSong THEN UNCHANGED vars ELSE startOrStop

\* the restart button without setPlaybackTime(0)
restartMediaOnly ==
    /\ activeSong # NoSong
    /\ playbackTime' = playbackTime
    /\ audioRef' = IF audioRef.present
                   THEN [audioRef EXCEPT !.currentTime = 0]
                   ELSE audioRef
    /\ UNCHANGED <<analysisProgress, activeSong, isPlaying, settings, pending,
                   download>>
    /\ lastEvent' = "seek"
    /\ NewRun
    /\ Effects(FALSE)

\* the restart button: setPlaybackTime(0); audio.currentTime = 0
restart ==
    /\ activeSong # NoSong
    /\ playbackTime' = 0
    /\ audioRef' = IF audioRef.present
                   THEN [audioRef EXCEPT !.currentTime = 0]
                   ELSE audioRef
    /\ UNCHANGED <<analysisProgress, activeSong, isPlaying, settings, pending,
                   download>>
    /\ lastEvent' = "seek"
    /\ NewRun
    /\ Effects(FALSE)

\* the setInterval callback of timer t, with the settings its closure captured
tick(t) ==
    /\ t \in timers
    /\ IF audioRef.present /\ ~t.silentMode
       THEN /\ playbackTime' = audioRef.currentTime
            /\ runBase' = 0
            /\ runTicks' = 0
            /\ lastEvent' = "none"
       ELSE /\ playbackTime + SimulatedStep(t.speed) <= MaxTime
            /\ playbackTime' = playbackTime + SimulatedStep(t.speed)
            /\ runTicks' = runTicks + 1
            /\ UNCHANGED runBase
            /\ lastEvent' = IF lastEvent = "seek" THEN "seekTick" ELSE "none"
    /\ UNCHANGED <<analysisProgress, activeSong, isPlaying, settings, audioRef,
                   pending, download>>
    /\ Effects(FALSE)

\* the media element plays on by itself while it is not paused
mediaAdvance(d) ==
    /\ audioRef.present
    /\ ~audioRef.paused
    /\ audioRef.currentTime + d <= MaxTime
    /\ audioRef' = [audioRef EXCEPT !.currentTime = @ + d]
    /\ UNCHANGED <<analysisProgress, activeSong, playbackTime, isPlaying,
                   highlightedKeys, settings, playbackIntervalRef, timers, pending,
                   download, runBase, runTicks>>
    /\ lastEvent' = "none"

----------------------------------------------------------------------------
(* Settings *)

SetSettings(new) ==
    /\ settings' = new
    /\ UNCHANGED <<analysisProgress, activeSong, playbackTime, isPlaying, audioRef,
                   pending, download>>
    /\ lastEvent' = IF lastEvent = "seek" THEN "seek" ELSE "none"
    /\ Effects(FALSE)

Max(a, b) == IF a >= b THEN a ELSE b
Min(a, b) == IF a <= b THEN a ELSE b

\* transposeDown without Math.max
transposeDownNoClamp ==
    /\ activeSong # NoSong
    /\ SetSettings([settings EXCEPT !.transposition = settings.transposition - 1])
    /\ UNCHANGED <<runBase, runTicks>>

transposeDown ==
    /\ activeSong # NoSong
    /\ SetSettings([settings EXCEPT
           !.transposition = Max(MinTransposition, settings.transposition - 1)])
    /\ UNCHANGED <<runBase, runTicks>>

transposeUp ==
    /\ activeSong # NoSong
    /\ SetSettings([settings EXCEPT
           !.transposition = Min(MaxTransposition, settings.transposition + 1)])
    /\ UNCHANGED <<runBase, runTicks>>

toggleSilentMode ==
    /\ SetSettings([settings EXCEPT !.silentMode = ~settings.silentMode])
    /\ NewRun

setSpeed(s) ==
    /\ s \in SpeedButtons
    /\ SetSettings([settings EXCEPT !.speed = s])
    /\ IF s = settings.speed THEN UNCHANGED <<runBase, runTicks>> ELSE NewRun

\* the Settings view hands setSettings to its controls: musicMode.enabled
toggleEnabled ==
    /\ SetSettings([settings EXCEPT !.enabled = ~settings.enabled])
    /\ UNCHANGED <<runBase, runTicks>>

----------------------------------------------------------------------------
(* Export *)

\* lines 96-131
offerMidiFile ==
    /\ download' = [song |-> activeSong,
                    transposition |-> settings.transposition,
                    name |-> Songs[activeSong].name,
                    bytes |-> midiFile(Notes(activeSong)),
                    running |-> isPlaying]
    /\ UNCHANGED <<analysisProgress, activeSong, playbackTime, isPlaying,
                   highlightedKeys, settings, audioRef, playbackIntervalRef, timers,
                   pending, runBase, runTicks>>
    /\ lastEvent' = "none"

\* if (!activeSong) return; then build and offer the file
exportMIDI ==
    IF activeSong = NoSong THEN UNCHANGED vars ELSE offerMidiFile

----------------------------------------------------------------------------
(* Specifications *)

\* one analysis at a time: the progress overlay covers the controls
Upload == \E f \in Files : pending = << >> /\ handleFileUpload(f)
Progress == \E i \in 1..Len(pending), p \in ProgressValues : onProgress(i, p)
Resolved == \E i \in 1..Len(pending) : analysisResolved(i)
Failed == \E i \in 1..Len(pending) : analysisFailed(i)
Tick == \E t \in timers : tick(t)
MediaAdvance == \E d \in MediaSteps : mediaAdvance(d)
SetSpeed == \E s \in SpeedButtons : setSpeed(s)

\* the playback clock and the resolver
Next ==
    \/ Tick
    \/ Upload
    \/ Resolved
    \/ Failed
    \/ togglePlayback
    \/ restart
    \/ MediaAdvance
    \/ toggleSilentMode
    \/ SetSpeed
    \/ toggleEnabled

Spec == Init /\ [][Next]_vars

ExportTick == playbackTime < MaxExportTime /\ Tick
ExportTransposeDown == settings.transposition > 0 - MaxExportShift /\ transposeDown
ExportTransposeUp == settings.transposition < MaxExportShift /\ transposeUp

\* the exporter, over a short stretch of playback and a few transpositions
NextExport ==
    \/ ExportTick
    \/ Upload
    \/ Resolved
    \/ Failed
    \/ togglePlayback
    \/ toggleSilentMode
    \/ ExportTransposeDown
    \/ ExportTransposeUp
    \/ exportMIDI

SpecExport == Init /\ [][NextExport]_vars

\* the transposition buttons, over their whole range, while playback starts and stops
NextTranspose ==
    \/ Upload
    \/ Resolved
    \/ Failed
    \/ togglePlayback
    \/ toggleSilentMode
    \/ transposeDown
    \/ transposeUp

SpecTranspose == Init /\ [][NextTranspose]_vars

\* handleFileUpload has no guard of its own: a request can be issued while
\* others are in flight
AnyUpload == \E f \in Files : handleFileUpload(f)
AnalysisTick == playbackTime < MaxAnalysisTime /\ Tick

\* the analysis requests, their progress and their outcomes, while a song plays
NextAnalysis ==
    \/ AnyUpload
    \/ Progress
    \/ Resolved
    \/ Failed
    \/ togglePlayback
    \/ AnalysisTick
    \/ toggleSilentMode

SpecAnalysis == Init /\ [][NextAnalysis]_vars

\* silent playback of the songs the analysis can produce; the browser keeps
\* calling the callback of a live interval timer, which is the weak fairness of
\* Tick
SilentUpload == \E f \in SongIds : pending = << >> /\ handleFileUpload(f)

NextSilent ==
    \/ Tick
    \/ SilentUpload
    \/ Resolved
    \/ togglePlayback
    \/ restart
    \/ toggleSilentMode
    \/ SetSpeed

SpecSilent == Init /\ [][NextSilent]_vars /\ WF_vars(Tick)

----------------------------------------------------------------------------
(* Properties of the resolver and the clock, under Spec *)

\* C1: while a song is active and playback runs, an upper-cased key K is
\* highlighted exactly when some note n of the song has upper-cased n.key = K
\* and n.time <= playbackTime <= n.time + n.duration, both ends included.
C1_HighlightedIffActive ==
    (activeSong # NoSong /\ isPlaying) =>
        LET ns == Notes(activeSong)
            Sounding(n) == /\ n.time <= playbackTime
                           /\ playbackTime <= n.time + n.duration
        IN  /\ \A K \in highlightedKeys :
                 \E i \in 1..Len(ns) : ToUpperCase(ns[i].key) = K /\ Sounding(ns[i])
            /\ \A i \in 1..Len(ns) :
                 Sounding(ns[i]) => ToUpperCase(ns[i].key) \in highlightedKeys
            /\ \A i \in 1..Len(ns) :
                 (ns[i].duration = 0 /\ playbackTime # ns[i].time) =>
                     \/ ToUpperCase(ns[i].key) \notin highlightedKeys
                     \/ \E j \in 1..Len(ns) :
                          /\ j # i
                          /\ ToUpperCase(ns[j].key) = ToUpperCase(ns[i].key)
                          /\ Sounding(ns[j])

\* the cursor sits on the note without duration, and its key "G" is highlighted
\* next to the "C" that "C" and "c" collapse to
C1_Witness ==
    /\ activeSong = 2
    /\ isPlaying
    /\ playbackTime = 16
    /\ highlightedKeys = { <<67>>, <<71>>, <<336>> }

\* C2: while playback runs, no tick moves the cursor backwards, whatever the
\* mode of the tick and whatever toggles of silent mode and changes of speed
\* came between the ticks.
C2_CursorNeverDecreases ==
    [][(isPlaying /\ isPlaying' /\ Tick) => playbackTime' >= playbackTime]_vars

\* C3: no timer is live while playback is stopped, at most one timer is live
\* at any moment, and while playback is stopped the cursor is changed by the
\* restart button alone.
C3_NoTimerWhenStopped ==
    /\ [](/\ ~isPlaying => timers = {}
          /\ Cardinality(timers) <= 1)
    /\ [][(~isPlaying /\ ~isPlaying' /\ playbackTime' # playbackTime)
            => (restart /\ playbackTime' = 0)]_vars

\* playback was stopped after the cursor had moved, and the timer is gone
C3_Witness ==
    /\ activeSong # NoSong
    /\ ~isPlaying
    /\ playbackTime > 0
    /\ playbackIntervalRef # 0
    /\ timers = {}

\* C4: in silent mode, k ticks in a row at speed s, with no seek, stop, mode
\* toggle or speed change between them, move the cursor by exactly k * 16 * s.
C4_SilentAdvanceExact ==
    (isPlaying /\ settings.silentMode) =>
        playbackTime * 100 = runBase * 100 + runTicks * 16 * settings.speed

\* two ticks at speed 1.5 have moved the cursor by 48
C4_Witness ==
    /\ isPlaying
    /\ settings.silentMode
    /\ settings.speed = 150
    /\ runTicks = 2
    /\ playbackTime = runBase + 48

\* C10 as stated: the highlighted set is empty whenever no song is active or
\* musicMode.enabled is false.
C10_EmptyWhenDisabled ==
    (activeSong = NoSong \/ ~settings.enabled) => highlightedKeys = {}

\* C10, amended: the highlighted set is empty whenever no song is active, or
\* musicMode.enabled is false and playback is not running.
C10_EmptyWhenDisabledAndStopped ==
    (activeSong = NoSong \/ (~settings.enabled /\ ~isPlaying)) => highlightedKeys = {}

\* playback stopped on a sounding note with musicMode.enabled false: the
\* resolver has cleared the set
C10_Witness ==
    /\ activeSong = 1
    /\ ~isPlaying
    /\ ~settings.enabled
    /\ playbackTime > 0
    /\ playbackIntervalRef # 0
    /\ highlightedKeys = {}

----------------------------------------------------------------------------
(* Properties of the exporter and the transposition buttons, under SpecExport *)

BigEndian32(n) ==
    << (n \div 16777216) % 256, (n \div 65536) % 256, (n \div 256) % 256, n % 256 >>

RECURSIVE NoteBytes(_)
NoteBytes(notes) ==
    IF notes = << >> THEN << >>
    ELSE LET p == ToUint8(midiNote(Head(notes)))
         IN  << 0, 144, p, 100, 129, 64, 128, p, 0 >> \o NoteBytes(Tail(notes))

\* the value of the length field of the track chunk
TrackLengthField(bytes) ==
    bytes[19] * 16777216 + bytes[20] * 65536 + bytes[21] * 256 + bytes[22]

\* C5: an export of a song with N notes is the 14 header bytes, "MTrk", the
\* big-endian length 9 * N + 4, which is the number of bytes after it, nine
\* bytes 00 90 p 64 81 40 80 p 00 per note in list order, then 00 FF 2F 00.
C5_ExportedBytes ==
    download.song # NoSong =>
        LET ns == Notes(download.song)
        IN  /\ download.bytes =
                 << 77, 84, 104, 100, 0, 0, 0, 6, 0, 0, 0, 1, 1, 224 >>
                 \o << 77, 84, 114, 107 >>
                 \o BigEndian32(9 * Len(ns) + 4)
                 \o NoteBytes(ns)
                 \o << 0, 255, 47, 0 >>
            /\ TrackLengthField(download.bytes) = Len(download.bytes) - 22

\* the song of seven notes was exported
C5_Witness ==
    /\ download.song = 2
    /\ Len(download.bytes) = 89

Clamp127(x) == IF x < 0 THEN 0 ELSE IF x > 127 THEN 127 ELSE x

\* C6: in an export made at transposition T, the pitch byte of the note-on and
\* of the note-off of every note is 60 + (ordinal of the upper-cased key
\* relative to 'A') + T, clamped into 0..127.
C6_PitchByteTransposed ==
    download.song # NoSong =>
        \A i \in 1..Len(Notes(download.song)) :
            LET n == Notes(download.song)[i]
                p == Clamp127(60 + (UpperCode(n.key[1]) - 65) + download.transposition)
            IN  Len(n.key) > 0 =>
                    /\ download.bytes[22 + 9 * (i - 1) + 3] = p
                    /\ download.bytes[22 + 9 * (i - 1) + 8] = p

\* C7 as stated: the export of [{key "A", time 0, duration 200}] at
\* transposition 0 is one note-on of pitch 60, one note-off of pitch 60, the
\* end-of-track marker, and a length field of 16.
C7_ScenarioB_Length16 ==
    (download.song = 1 /\ download.transposition = 0) =>
        /\ SubSeq(download.bytes, 23, Len(download.bytes)) =
               << 0, 144, 60, 100 >> \o << 129, 64, 128, 60, 0 >> \o << 0, 255, 47, 0 >>
        /\ TrackLengthField(download.bytes) = 16

\* C7, amended: the same track, and a length field of 13.
C7_ScenarioB_Length13 ==
    (download.song = 1 /\ download.transposition = 0) =>
        /\ SubSeq(download.bytes, 23, Len(download.bytes)) =
               << 0, 144, 60, 100 >> \o << 129, 64, 128, 60, 0 >> \o << 0, 255, 47, 0 >>
        /\ TrackLengthField(download.bytes) = 13

\* the song of scenario B was exported at transposition 0
C7_Witness ==
    /\ download.song = 1
    /\ download.transposition = 0
    /\ Len(download.bytes) = 35

C9_TranspositionClamped ==
    /\ [](/\ settings.transposition >= 0 - 12
          /\ settings.transposition <= 12)
    /\ [][transposeDown =>
            settings'.transposition =
                IF settings.transposition = 0 - 12 THEN 0 - 12
                ELSE settings.transposition - 1]_vars
    /\ [][transposeUp =>
            settings'.transposition =
                IF settings.transposition = 12 THEN 12
                ELSE settings.transposition + 1]_vars

\* twelve steps down have reached the lower boundary
C9_Witness ==
    /\ activeSong # NoSong
    /\ settings.transposition = 0 - 12

----------------------------------------------------------------------------
(* Properties of the analysis requests, under SpecAnalysis *)

C12_NotRunningAfterFailure ==
    lastEvent = "failed" => ~isPlaying

\* C12, amended: an analysis failure leaves the running flag and the timer as
\* they were; right after it the clock runs only if a song is active and was
\* playing, with exactly its one timer.
C12_FailureKeepsClock ==
    /\ [][Failed => (isPlaying' = isPlaying /\ timers' = timers)]_vars
    /\ [](lastEvent = "failed" =>
            /\ isPlaying => (activeSong # NoSong /\ Cardinality(timers) = 1)
            /\ ~isPlaying => timers = {})

\* the failed request was issued while song "mixed" was playing; it still plays
C12_Witness ==
    /\ lastEvent = "failed"
    /\ activeSong = 2
    /\ isPlaying
    /\ Cardinality(timers) = 1

\* C13: once a later request has been issued, no progress report and no
\* completion of an earlier request changes analysisProgress, the active song
\* or the media source.
C13_NoStaleUpdates ==
    [][\A i \in 1..(Len(pending) - 1) :
          (\/ \E p \in ProgressValues : onProgress(i, p)
           \/ (pending[i].file # pending[Len(pending)].file /\ analysisResolved(i)))
          => UNCHANGED <<analysisProgress, activeSong, audioRef>>]_vars

----------------------------------------------------------------------------
(* The handlers without a song, under SpecExport *)

\* C14: while no song is loaded, playback is not running, no timer is live,
\* the cursor is 0, there is no media element and no file has been offered,
\* whatever was clicked; togglePlayback and exportMIDI change nothing there.
C14_NoSongNoOp ==
    /\ [](activeSong = NoSong =>
            /\ ~isPlaying
            /\ timers = {}
            /\ playbackTime = 0
            /\ ~audioRef.present
            /\ download = NoDownload)
    /\ [][(activeSong = NoSong /\ (togglePlayback \/ exportMIDI)) => UNCHANGED vars]_vars

\* no song is loaded, an analysis is in flight and silent mode was switched on:
\* both handlers can be called here and return at once
C14_Witness ==
    /\ activeSong = NoSong
    /\ pending # << >>
    /\ settings.silentMode
    /\ ~isPlaying
    /\ download = NoDownload

----------------------------------------------------------------------------
(* The tick timer and the media element, under Spec *)

C16_MediaUntouchedWhenSilent ==
    [][(settings.silentMode /\ (togglePlayback \/ restart \/ Tick))
          => audioRef' = audioRef]_vars

\* C17: while running with silent mode off, the media element's playback rate
\* is the current speed.
C17_RateFollowsSpeed ==
    (isPlaying /\ ~settings.silentMode /\ audioRef.present)
        => audioRef.playbackRate = settings.speed

\* C18: right after playback is started with silent mode off, the media
\* element's position is the cursor.
C18_MediaStartsAtCursor ==
    [][(~isPlaying /\ isPlaying' /\ ~settings.silentMode /\ audioRef.present)
          => audioRef'.currentTime = playbackTime']_vars

\* C19: a restart sets the cursor to 0 and leaves the running flag and the song
\* alone; the cursor is still 0 when the next tick comes, and after that tick,
\* taken in silent mode, it is exactly 16 * speed (speed in percent).
C19_RestartBetweenTicks ==
    /\ [][restart =>
            (playbackTime' = 0 /\ isPlaying' = isPlaying /\ activeSong' = activeSong)]_vars
    /\ [](lastEvent = "seek" => playbackTime = 0)
    /\ [](lastEvent = "seekTick" => playbackTime * 100 = 16 * settings.speed)

\* first silent tick after a restart at speed 1.5x
C19_Witness ==
    /\ lastEvent = "seekTick"
    /\ isPlaying
    /\ settings.silentMode
    /\ settings.speed = 150
    /\ playbackTime = 24
    /\ runTicks = 1

----------------------------------------------------------------------------
(* Uninterrupted silent playback, under SpecSilent *)

\* song s plays silently at speed v in a run that started at cursor 0
SilentRun(s, v) ==
    /\ activeSong = s
    /\ isPlaying
    /\ settings.silentMode
    /\ settings.speed = v
    /\ runBase = 0

\* the run of song s at speed v is over: stop, seek, mode toggle, speed change
\* or another song
Interrupted(s, v) ==
    \/ activeSong # s
    \/ ~isPlaying
    \/ ~settings.silentMode
    \/ settings.speed # v
    \/ lastEvent = "seek"

\* C20: in a silent run from cursor 0 at speed v that is not interrupted, a
\* first tick eventually occurs, and every note whose duration is at least
\* 16 * v (v in percent: duration * 100 >= 16 * v) and whose window the cursor
\* has not passed eventually has its upper-cased key in highlightedKeys in a
\* state after at least one tick.
C20_LongNotesGetHighlighted ==
    \A s \in SongIds : \A v \in SpeedButtons :
        /\ (SilentRun(s, v) /\ runTicks = 0)
              ~> (runTicks >= 1 \/ activeSong # s \/ ~isPlaying
                    \/ ~settings.silentMode \/ settings.speed # v)
        /\ \A i \in 1..Len(Songs[s].notes) :
              Songs[s].notes[i].duration * 100 >= 16 * v =>
                  ((/\ SilentRun(s, v)
                    /\ playbackTime <= Songs[s].notes[i].time + Songs[s].notes[i].duration)
                     ~> (\/ Interrupted(s, v)
                         \/ /\ SilentRun(s, v)
                            /\ runTicks >= 1
                            /\ ToUpperCase(Songs[s].notes[i].key) \in highlightedKeys))

\* fifth tick of a silent run of "mixed" at 0.5x: the note with the empty key,
\* which starts at 40 and lasts 8, is highlighted
C20_Witness ==
    /\ activeSong = 2
    /\ isPlaying
    /\ settings.silentMode
    /\ settings.speed = 50
    /\ runBase = 0
    /\ runTicks = 5
    /\ playbackTime = 40
    /\ << >> \in highlightedKeys

====
